---- MODULE Spec2Model ----
(***************************************************************************)
(* FastHeap (crates/algorithm/src/fast_heap.rs): a two-state heap that     *)
(* starts as a partially sorted vector (SortHeap) and falls back to a      *)
(* std BinaryHeap once the sorted window is used up.                       *)
(*                                                                         *)
(* Vectors are sequences; Rust's 0-based positions are kept in the         *)
(* operators and shifted by one where a sequence is indexed.               *)
(***************************************************************************)
EXTENDS Integers, Sequences, FiniteSets, TLC

\* fast_heap.rs:24  NonZero::new(n / 384)
Divisor == 384

\* Inputs: the longest length is MaxWindows * Divisor (from a budget of 3 on,
\* select_nth_unstable alone does not leave the window sorted).
MaxWindows == 3
\* Inputs: every vector over 0 .. MaxSmallVal of length <= MaxSmallLen.
MaxSmallLen == 3
MaxSmallVal == 2
\* Inputs: the generated vectors take their values modulo Modulus (a prime
\* above the longest length, so a multiplier coprime to it gives distinct
\* values) or modulo TieModulus (many equal values).
Modulus == 1009
TieModulus == 7
\* Typmod inputs: the i32 values -MaxDims - 2 .. MaxDims and the dimensions
\* 1 .. MaxDims, beside the values at the edges of 16 and 32 bits.
MaxDims == 40
\* Typmod inputs: the modifier strings of length <= MaxStrLen.
MaxStrLen == 5
\* Typmod: the calls made in a row on one value.
MaxCalls == 3

None == <<>>
Some(x) == <<x>>

(***************************************************************************)
(* std::collections::BinaryHeap, as a vector `data` in heap order.         *)
(***************************************************************************)
SatSub(a, b) == IF a >= b THEN a - b ELSE 0

\* sift_down_range(pos, end): the hole holding `elt` moves down from pos
\* while a child is greater.
RECURSIVE SiftDownRange(_, _, _, _)
SiftDownRange(data, elt, pos, end) ==
    LET child == 2 * pos + 1 IN
    IF child <= SatSub(end, 2)
    THEN LET c == child + (IF data[child + 1] <= data[child + 2] THEN 1 ELSE 0) IN
         IF elt >= data[c + 1]
         THEN [data EXCEPT ![pos + 1] = elt]
         ELSE SiftDownRange([data EXCEPT ![pos + 1] = data[c + 1]], elt, c, end)
    ELSE IF child = end - 1 /\ elt < data[child + 1]
         THEN [data EXCEPT ![pos + 1] = data[child + 1], ![child + 1] = elt]
         ELSE [data EXCEPT ![pos + 1] = elt]

SiftDown(data, pos) == SiftDownRange(data, data[pos + 1], pos, Len(data))

\* rebuild(): n = len / 2; while n > 0 { n -= 1; sift_down(n) }
\* The loop's iterations for n = hi, hi - 1, ..., lo + 1, split in halves so
\* that the evaluation nests only logarithmically deep (the upper half is
\* evaluated, by taking its length, before the lower half starts).
RECURSIVE RebuildRange(_, _, _)
RebuildRange(data, lo, hi) ==
    IF hi <= lo THEN data
    ELSE IF hi = lo + 1 THEN SiftDown(data, lo)
    ELSE LET mid == (lo + hi) \div 2
             upper == RebuildRange(data, mid, hi)
         IN IF Len(upper) = Len(data) THEN RebuildRange(upper, lo, mid) ELSE upper

\* BinaryHeap::from(vec)
BinaryHeapFrom(vec) == RebuildRange(vec, 0, Len(vec) \div 2)

\* sift_up(start, pos): the hole holding `elt` moves up from pos while the
\* parent is smaller.
RECURSIVE SiftUp(_, _, _, _)
SiftUp(data, elt, start, pos) ==
    IF pos > start
    THEN LET parent == (pos - 1) \div 2 IN
         IF elt <= data[parent + 1]
         THEN [data EXCEPT ![pos + 1] = elt]
         ELSE SiftUp([data EXCEPT ![pos + 1] = data[parent + 1]], elt, start, parent)
    ELSE [data EXCEPT ![pos + 1] = elt]

\* sift_down_to_bottom(pos): the hole goes all the way down along the
\* greater children, then the element is sifted up from there.
RECURSIVE HoleToBottom(_, _, _)
HoleToBottom(data, pos, end) ==
    LET child == 2 * pos + 1 IN
    IF child <= SatSub(end, 2)
    THEN LET c == child + (IF data[child + 1] <= data[child + 2] THEN 1 ELSE 0) IN
         HoleToBottom([data EXCEPT ![pos + 1] = data[c + 1]], c, end)
    ELSE IF child = end - 1
         THEN [d |-> [data EXCEPT ![pos + 1] = data[child + 1]], pos |-> child]
         ELSE [d |-> data, pos |-> pos]

SiftDownToBottom(data, elt, pos) ==
    LET h == HoleToBottom(data, pos, Len(data)) IN SiftUp(h.d, elt, pos, h.pos)

\* BinaryHeap::pop: take the last element; if the heap is not empty now,
\* swap it with the root and sift the root's replacement down.
BinaryPop(data) ==
    IF Len(data) = 0 THEN [data |-> data, res |-> None]
    ELSE LET item == data[Len(data)]
             rest == SubSeq(data, 1, Len(data) - 1)
         IN IF Len(rest) = 0 THEN [data |-> rest, res |-> Some(item)]
            ELSE [data |-> SiftDownToBottom(rest, item, 0), res |-> Some(rest[1])]

\* BinaryHeap::peek: data.get(0)
BinaryPeek(data) == IF Len(data) = 0 THEN None ELSE Some(data[1])

(***************************************************************************)
(* The vector operations from_vec uses.                                    *)
(***************************************************************************)
Reverse(s) == [i \in 1..Len(s) |-> s[Len(s) + 1 - i]]

\* slice::sort_unstable: ascending.
SortUnstable(s) == SortSeq(s, LAMBDA a, b: a < b)

\* turboselect::select_nth_unstable(v, index): afterwards v[index] is the
\* element a full sort would put there, nothing before it is greater and
\* nothing after it is smaller.  The order inside the two sides is not
\* specified; `arr` picks one of the arrangements modelled.
Arrangements == {"keep", "reverse"}

SelectNthUnstable(v, index, arr) ==
    LET p == SortUnstable(v)[index + 1]
        lt == SelectSeq(v, LAMBDA x: x < p)
        eq == SelectSeq(v, LAMBDA x: x = p)
        gt == SelectSeq(v, LAMBDA x: x > p)
        base == lt \o eq \o gt
        left == SubSeq(base, 1, index)
        right == SubSeq(base, index + 2, Len(v))
    IN IF arr = "keep" THEN base
       ELSE Reverse(left) \o <<p>> \o Reverse(right)

(***************************************************************************)
(* FastHeap<T> = Sorted(SortHeap { inner, t }) | Binary(BinaryHeap).       *)
(* Panicked stands for a call that panicked, Moved for a value consumed by *)
(* into_iter.                                                              *)
(***************************************************************************)
Sorted(inner, t) == [tag |-> "Sorted", inner |-> inner, t |-> t]
Binary(data) == [tag |-> "Binary", data |-> data]
Panicked == [tag |-> "Panicked"]
Moved == [tag |-> "Moved"]

\* Mutant of Budget: the quotient rounded up.
BudgetRoundUp(n) == (n + Divisor - 1) \div Divisor

\* n / 384, the argument of NonZero::new
Budget(n) == n \div Divisor

\* Mutant of FromVec: the window is selected but not sorted.
FromVecNoSort(vec, arr) ==
    LET n == Len(vec)
        t == Budget(n)
    IN IF t /= 0
       THEN Sorted(SelectNthUnstable(vec, n - t, arr), t)
       ELSE Binary(BinaryHeapFrom(vec))

\* Mutant of FromVec: the Sorted state is built whatever the budget is.
FromVecUnchecked(vec, arr) ==
    LET n == Len(vec)
        t == Budget(n)
        index == n - t
    IN IF t > n \/ index >= n THEN Panicked
       ELSE LET sel == SelectNthUnstable(vec, index, arr)
                inner == SubSeq(sel, 1, index)
                            \o SortUnstable(SubSeq(sel, index + 1, n))
            IN Sorted(inner, t)

\* FastHeap::from_vec
FromVec(vec, arr) ==
    LET n == Len(vec)
        t == Budget(n)
    IN IF t /= 0
       THEN LET index == n - t IN
            IF t > n \/ index >= n THEN Panicked
            ELSE LET sel == SelectNthUnstable(vec, index, arr)
                     inner == SubSeq(sel, 1, index)
                                 \o SortUnstable(SubSeq(sel, index + 1, n))
                 IN Sorted(inner, t)
       ELSE Binary(BinaryHeapFrom(vec))

\* Mutant of SortPeek: inner.first()
SortPeekFirst(h) == IF Len(h.inner) = 0 THEN None ELSE Some(h.inner[1])

\* SortHeap::peek: inner.last()
SortPeek(h) == IF Len(h.inner) = 0 THEN None ELSE Some(h.inner[Len(h.inner)])

\* FastHeap::peek
PeekOf(h) == IF h.tag = "Sorted" THEN SortPeek(h) ELSE BinaryPeek(h.data)

\* Mutant of PopSorted: the remaining vector becomes the heap as it is,
\* without being put in heap order.
PopSortedNoHeapify(h) ==
    IF Len(h.inner) = 0 THEN [heap |-> Panicked, res |-> None]
    ELSE LET k == h.inner[Len(h.inner)]
             inner == SubSeq(h.inner, 1, Len(h.inner) - 1)
         IN IF h.t - 1 /= 0
            THEN [heap |-> Sorted(inner, h.t - 1), res |-> Some(k)]
            ELSE [heap |-> Binary(inner), res |-> Some(k)]

\* Mutant of PopSorted: the transition is left to the call after the one that
\* uses up the budget.
PopSortedLazy(h) ==
    IF h.t = 0
    THEN LET r == BinaryPop(BinaryHeapFrom(h.inner)) IN
         [heap |-> Binary(r.data), res |-> r.res]
    ELSE IF Len(h.inner) = 0 THEN [heap |-> Panicked, res |-> None]
    ELSE [heap |-> Sorted(SubSeq(h.inner, 1, Len(h.inner) - 1), h.t - 1),
          res |-> Some(h.inner[Len(h.inner)])]

\* Mutant of PopSorted: the fallback heap is built from the vector as it was
\* before its last element was taken.
PopSortedKeepsLast(h) ==
    IF Len(h.inner) = 0 THEN [heap |-> Panicked, res |-> None]
    ELSE LET k == h.inner[Len(h.inner)]
             inner == SubSeq(h.inner, 1, Len(h.inner) - 1)
         IN IF h.t - 1 /= 0
            THEN [heap |-> Sorted(inner, h.t - 1), res |-> Some(k)]
            ELSE [heap |-> Binary(BinaryHeapFrom(h.inner)), res |-> Some(k)]

\* Mutant of PopSorted: the budget is not written back.
PopSortedNoDecrement(h) ==
    IF Len(h.inner) = 0 THEN [heap |-> Panicked, res |-> None]
    ELSE LET k == h.inner[Len(h.inner)]
             inner == SubSeq(h.inner, 1, Len(h.inner) - 1)
         IN IF h.t - 1 /= 0
            THEN [heap |-> Sorted(inner, h.t), res |-> Some(k)]
            ELSE [heap |-> Binary(BinaryHeapFrom(inner)), res |-> Some(k)]

\* FastHeap::pop, the Sorted arm
PopSorted(h) ==
    IF Len(h.inner) = 0 THEN [heap |-> Panicked, res |-> None]
    ELSE LET k == h.inner[Len(h.inner)]
             inner == SubSeq(h.inner, 1, Len(h.inner) - 1)
         IN IF h.t - 1 /= 0
            THEN [heap |-> Sorted(inner, h.t - 1), res |-> Some(k)]
            ELSE [heap |-> Binary(BinaryHeapFrom(inner)), res |-> Some(k)]

\* Mutant of PopOf: the Binary arm takes an empty heap for unreachable too.
PopOfUnwrap(h) ==
    IF h.tag = "Sorted" THEN PopSorted(h)
    ELSE LET r == BinaryPop(h.data) IN
         IF r.res = None THEN [heap |-> Panicked, res |-> None]
         ELSE [heap |-> Binary(r.data), res |-> r.res]

\* Mutant of PopOf: the Binary arm builds the structure anew from what is
\* left.
PopOfRebuild(h) ==
    IF h.tag = "Sorted" THEN PopSorted(h)
    ELSE LET r == BinaryPop(h.data) IN [heap |-> FromVec(r.data, "keep"), res |-> r.res]

\* FastHeap::pop
PopOf(h) ==
    IF h.tag = "Sorted" THEN PopSorted(h)
    ELSE LET r == BinaryPop(h.data) IN [heap |-> Binary(r.data), res |-> r.res]

\* The predicates handed to pop_if: x > c.
Pred(c, x) == x > c

\* Mutant of PopIfOf: the predicate is not consulted.
PopIfAlways(h, c) ==
    IF PeekOf(h) = None THEN [heap |-> h, res |-> None] ELSE PopOf(h)

\* Mutant of PopIfOf: the peeked value is returned without being popped.
PopIfNoRemove(h, c) ==
    LET first == PeekOf(h) IN
    IF first = None THEN [heap |-> h, res |-> None]
    ELSE IF Pred(c, first[1]) THEN [heap |-> h, res |-> first]
         ELSE [heap |-> h, res |-> None]

\* Heap::pop_if
PopIfOf(h, c) ==
    LET first == PeekOf(h) IN
    IF first = None THEN [heap |-> h, res |-> None]
    ELSE IF Pred(c, first[1]) THEN PopOf(h) ELSE [heap |-> h, res |-> None]

\* Mutant of IntoIterOf: the Sorted state yields its window only.
IntoIterWindow(h) ==
    IF h.tag = "Sorted"
    THEN SubSeq(h.inner, Len(h.inner) - h.t + 1, Len(h.inner))
    ELSE h.data

\* IntoIterator::into_iter
IntoIterOf(h) == IF h.tag = "Sorted" THEN h.inner ELSE h.data

(***************************************************************************)
(* The reference of the capability interface: a plain std BinaryHeap with  *)
(* make = BinaryHeap::from and pop_if = peek, then pop if the predicate    *)
(* holds.                                                                  *)
(***************************************************************************)
PlainMake(vec) == BinaryHeapFrom(vec)

PlainPopIf(data, c) ==
    LET first == BinaryPeek(data) IN
    IF first = None THEN [data |-> data, res |-> None]
    ELSE IF Pred(c, first[1]) THEN BinaryPop(data) ELSE [data |-> data, res |-> None]

(***************************************************************************)
(* Typmod (src/datatype/typmod.rs): Any | Dims(NonZero<u32>), its encoding *)
(* as an i32 and the two SQL functions.  A string is a sequence of         *)
(* characters.  An i32 is an integer in -2^31 .. 2^31 - 1; a u32 is the    *)
(* pair <<hi, lo>> of its two 16-bit halves, its value hi * 65536 + lo.    *)
(***************************************************************************)
TypmodAny == <<"Any">>
TypmodDims(d) == <<"Dims", d>>

\* the u32 of value n, 0 <= n < 2^31
U32(n) == <<n \div 65536, n % 65536>>

\* x as u32, for an i32: the same 32 bits (\div rounds down, % is >= 0)
AsU32(x) == <<(x \div 65536) % 65536, x % 65536>>
\* d as i32, for a u32: the same 32 bits
AsI32(d) == (IF d[1] >= 32768 THEN d[1] - 65536 ELSE d[1]) * 65536 + d[2]

\* What a call leaves: a value, the message of pgrx::error!, or a panic.
Val(ty, v) == [ty |-> ty, v |-> v]
Raised(msg) == Val("error", msg)
Panic == Val("panic", "unwrap")

\* parse_from_i32 with `x >= 0` in place of `x >= 1`
ParseFromI32AcceptsZero(x) ==
    IF x = -1 THEN Val("Option<Typmod>", Some(TypmodAny))
    ELSE IF x >= 0
         THEN IF AsU32(x) = U32(0) THEN Panic
              ELSE Val("Option<Typmod>", Some(TypmodDims(AsU32(x))))
         ELSE Val("Option<Typmod>", None)

\* Typmod::parse_from_i32; NonZero::new(..).unwrap() panics on zero
ParseFromI32(x) ==
    IF x = -1 THEN Val("Option<Typmod>", Some(TypmodAny))
    ELSE IF x >= 1
         THEN IF AsU32(x) = U32(0) THEN Panic
              ELSE Val("Option<Typmod>", Some(TypmodDims(AsU32(x))))
         ELSE Val("Option<Typmod>", None)

\* into_i32 with `Any => 0`
IntoI32AnyAsZero(t) == IF t = TypmodAny THEN 0 ELSE AsI32(t[2])

\* Typmod::into_i32
IntoI32(t) == IF t = TypmodAny THEN -1 ELSE AsI32(t[2])

DigitChars == <<"0", "1", "2", "3", "4", "5", "6", "7", "8", "9">>
IsDigit(ch) == \E i \in 1..10 : DigitChars[i] = ch
DigitOf(ch) == (CHOOSE i \in 1..10 : DigitChars[i] = ch) - 1

\* d / 10 and d % 10 for a u32, by long division over the two halves
DivMod10(d) ==
    LET mid == (d[1] % 10) * 65536 + d[2] IN
    [quot |-> <<d[1] \div 10, mid \div 10>>, rem |-> mid % 10]

\* u32::to_string
RECURSIVE U32ToString(_)
U32ToString(d) ==
    LET dm == DivMod10(d) IN
    IF dm.quot = U32(0) THEN <<DigitChars[dm.rem + 1]>>
    ELSE U32ToString(dm.quot) \o <<DigitChars[dm.rem + 1]>>

\* Typmod::into_option_string
IntoOptionString(t) == IF t = TypmodAny THEN None ELSE Some(U32ToString(t[2]))

\* the digits of str::parse::<u32>, with checked multiplication and addition
RECURSIVE ParseDigits(_, _)
ParseDigits(s, acc) ==
    IF Len(s) = 0 THEN Some(acc)
    ELSE IF ~IsDigit(s[1]) THEN None
    ELSE LET lo == acc[2] * 10 + DigitOf(s[1])
             hi == acc[1] * 10 + lo \div 65536
         IN IF hi > 65535 THEN None
            ELSE ParseDigits(Tail(s), <<hi, lo % 65536>>)

\* s.parse::<u32>().ok(): no empty string, no lone sign, one leading "+"
\* allowed, then digits only
ParseU32(s) ==
    IF Len(s) = 0 THEN None
    ELSE IF s = <<"+">> \/ s = <<"-">> THEN None
    ELSE IF s[1] = "+" THEN ParseDigits(Tail(s), U32(0))
    ELSE ParseDigits(s, U32(0))

\* An element of Array<&CStr>: NULL, bytes that are not UTF-8, or a string.
Null == Val("null", <<>>)
NotUtf8 == Val("bytes", <<>>)
Str(s) == Val("str", s)

InvalidModifier == "Modifier of the type is invalid."

\* _vchord_typmod_in_65535
TypmodIn65535(list) ==
    IF Len(list) = 0 THEN Val("i32", -1)
    ELSE IF Len(list) = 1
    THEN IF list[1] = Null THEN Panic
         ELSE IF list[1] = NotUtf8 THEN Panic
         ELSE LET d == ParseU32(list[1].v) IN
              IF d /= None /\ d[1][1] = 0 /\ d[1][2] >= 1
              THEN Val("i32", IntoI32(TypmodDims(d[1])))
              ELSE Raised(InvalidModifier)
    ELSE Raised(InvalidModifier)

\* _vchord_typmod_out
TypmodOut(typmod) ==
    LET parsed == ParseFromI32(typmod) IN
    IF parsed.ty = "panic" THEN Panic
    ELSE IF parsed.v = None THEN Panic
    ELSE LET s == IntoOptionString(parsed.v[1]) IN
         IF s /= None THEN Val("CString", <<"(">> \o s[1] \o <<")">>)
         ELSE Val("CString", <<"(", ")">>)

(***************************************************************************)
(* Inputs.                                                                 *)
(***************************************************************************)
\* 0, 1, 383, 384, 385, 768, 769 (section 8 of the specification), then the
\* further multiples of Divisor
Lens == {0, 1, Divisor - 1}
            \cup {k * Divisor + d : k \in 1..2, d \in {0, 1}}
            \cup {k * Divisor : k \in 3..MaxWindows}

Gen(n, a, m) == [i \in 1..n |-> (a * i) % m]

\* scrambled distinct values
Scrambled == {Gen(n, 37, Modulus) : n \in Lens}
\* many ties
Tied == {Gen(n, 3, TieModulus) : n \in Lens}

Small == UNION {[1..n -> 0..MaxSmallVal] : n \in 0..MaxSmallLen}

\* the example of the specification's section 8
Example == <<5, 3, 5, 1, 9, 9, 2>>

\* a vector and the arrangement select_nth_unstable leaves it in
Inputs == {<<v, arr>> : v \in Scrambled, arr \in Arrangements}
             \cup {<<v, "reverse">> : v \in Tied}
             \cup {<<v, "keep">> : v \in Small \cup {Example}}

\* i32 arguments of parse_from_i32 and _vchord_typmod_out
I32Inputs == ((0 - MaxDims - 2)..MaxDims)
                \cup {-2147483647 - 1, -2147483647, -65536, 65535, 65536,
                      2147483646, 2147483647}

\* the contents of Dims: non-zero u32, up to 2^31 - 1, 2^31, 2^31 + 1,
\* 2^32 - 2 and 2^32 - 1
U32Inputs == {U32(n) : n \in (1..MaxDims) \cup {65535, 65536, 2147483647}}
                \cup {<<32768, 0>>, <<32768, 1>>, <<65535, 65534>>, <<65535, 65535>>}

\* modifier strings: the short ones over Alphabet, and longer ones around
\* the end of u32
Alphabet == {"0", "1", "3", "5", "6", "+", "-", "a"}
LongStrings == {<<"4", "2", "9", "4", "9", "6", "7", "2", "9", "5">>,
                <<"4", "2", "9", "4", "9", "6", "7", "2", "9", "6">>,
                <<"0", "0", "0", "0", "0", "0", "6", "5", "5", "3", "5">>,
                <<"9", "9", "9", "9", "9", "9", "9", "9", "9", "9", "9">>}
Strings == UNION {[1..n -> Alphabet] : n \in 0..MaxStrLen} \cup LongStrings

\* modifier lists: empty, one element, two elements
Pair == {Str(<<"1">>), Str(<<"a">>), Null}
Lists == {<<>>, <<Null>>, <<NotUtf8>>}
            \cup {<<Str(st)>> : st \in Strings}
            \cup {<<a, b>> : a \in Pair, b \in Pair}

\* every Typmod of the bounded range
Typmods == {TypmodAny} \cup {TypmodDims(d) : d \in U32Inputs}

\* x > 1 (inside the small and the tied ranges), x > half of the scrambled
\* range (above the tied one)
Thresholds == {1, Modulus \div 2}
\* and x > 4, the example's
CutOffs == Thresholds \cup {4}

(***************************************************************************)
(* State: the structure, and what a caller has seen of it.                 *)
(*   heap   the FastHeap                                                   *)
(*   vec    the vector it was built from                                   *)
(*   answer vec sorted in non-increasing order (the test's `answer`)       *)
(*   plain  the reference heap built from the same vector                  *)
(*   out    the values returned so far by pop and pop_if                   *)
(*   last   the last call: its name, its argument, its result, the         *)
(*          structure before it and the reference's result                 *)
(*   tm     the calls made on a Typmod input, and the input followed by    *)
(*          what each call left                                            *)
(***************************************************************************)
VARIABLES heap, vec, answer, plain, out, last, tm
vars == <<heap, vec, answer, plain, out, last, tm>>
fastHeapVars == <<heap, vec, answer, plain, out, last>>

Idle == [calls |-> <<>>, vals |-> <<>>]

\* x.sort_by_key(|x| Reverse(*x)) of test_select_heap
SortDesc(s) == SortSeq(s, LAMBDA a, b: a > b)

Live == heap.tag \in {"Sorted", "Binary"}

Call(op, arg, res, before, ref) ==
    [op |-> op, arg |-> arg, res |-> res, before |-> before, ref |-> ref]

Init ==
    \E input \in Inputs :
        /\ vec = input[1]
        /\ answer = SortDesc(input[1])
        /\ heap = FromVec(input[1], input[2])
        /\ plain = PlainMake(input[1])
        /\ out = <<>>
        /\ last = Call("make", -1, None, Moved, None)
        /\ tm = Idle

Pop ==
    /\ Live
    /\ LET r == PopOf(heap)
           p == BinaryPop(plain)
       IN /\ heap' = r.heap
          /\ plain' = p.data
          /\ out' = out \o r.res
          /\ last' = Call("pop", -1, r.res, heap, p.res)
    /\ UNCHANGED <<vec, answer, tm>>

Peek ==
    /\ Live
    /\ last' = Call("peek", -1, PeekOf(heap), heap, BinaryPeek(plain))
    /\ UNCHANGED <<heap, vec, answer, plain, out, tm>>

PopIf(c) ==
    /\ Live
    /\ LET r == PopIfOf(heap, c)
           p == PlainPopIf(plain, c)
       IN /\ heap' = r.heap
          /\ plain' = p.data
          /\ out' = out \o r.res
          /\ last' = Call("pop_if", c, r.res, heap, p.res)
    /\ UNCHANGED <<vec, answer, tm>>

IntoIter ==
    /\ Live
    /\ heap' = Moved
    /\ last' = Call("into_iter", -1, IntoIterOf(heap), heap, None)
    /\ UNCHANGED <<vec, answer, plain, out, tm>>

Next ==
    \/ Pop
    \/ Peek
    \/ \E c \in Thresholds : PopIf(c)
    \/ IntoIter

Spec == Init /\ [][Next]_vars
\* Only pop, until it returns None and after.
NextDrain == Pop
SpecDrain == Init /\ [][NextDrain]_vars

\* Only pop_if, with one threshold from the first call on.
NextPopIf == \E c \in CutOffs : last.arg \in {-1, c} /\ PopIf(c)
SpecPopIf == Init /\ [][NextPopIf]_vars

(***************************************************************************)
(* Typmod: an input and the calls made on it, each on what the call before *)
(* left.  No FastHeap exists here.                                         *)
(***************************************************************************)
InitTypmod ==
    /\ heap = Moved /\ vec = <<>> /\ answer = <<>> /\ plain = <<>> /\ out = <<>>
    /\ last = Call("none", -1, None, Moved, None)
    /\ \/ \E x \in I32Inputs : tm = [calls |-> <<>>, vals |-> <<Val("i32", x)>>]
       \/ \E t \in Typmods : tm = [calls |-> <<>>, vals |-> <<Val("Typmod", t)>>]
       \/ \E l \in Lists : tm = [calls |-> <<>>, vals |-> <<Val("list", l)>>]

Cur == tm.vals[Len(tm.vals)]

Step(op, v) ==
    /\ tm' = [calls |-> Append(tm.calls, op), vals |-> Append(tm.vals, v)]
    /\ UNCHANGED fastHeapVars

CallParseFromI32 ==
    /\ Len(tm.calls) < MaxCalls
    /\ Cur.ty = "i32"
    /\ Step("parse_from_i32", ParseFromI32(Cur.v))

\* on a Typmod, or on the Typmod inside the Some that parse_from_i32 left
CallIntoI32 ==
    /\ Len(tm.calls) < MaxCalls
    /\ \/ Cur.ty = "Typmod" /\ Step("into_i32", Val("i32", IntoI32(Cur.v)))
       \/ /\ Cur.ty = "Option<Typmod>" /\ Cur.v /= None
          /\ Step("into_i32", Val("i32", IntoI32(Cur.v[1])))

CallTypmodIn ==
    /\ Len(tm.calls) < MaxCalls
    /\ Cur.ty = "list"
    /\ Step("_vchord_typmod_in_65535", TypmodIn65535(Cur.v))

CallTypmodOut ==
    /\ Len(tm.calls) < MaxCalls
    /\ Cur.ty = "i32"
    /\ Step("_vchord_typmod_out", TypmodOut(Cur.v))

NextTypmod ==
    \/ CallParseFromI32
    \/ CallIntoI32
    \/ CallTypmodIn
    \/ CallTypmodOut

SpecTypmod == InitTypmod /\ [][NextTypmod]_vars

(***************************************************************************)
(* Vocabulary of the properties.                                           *)
(***************************************************************************)
Elements(h) ==
    IF h.tag = "Sorted" THEN h.inner ELSE IF h.tag = "Binary" THEN h.data ELSE <<>>

SameElems(a, b) == SortDesc(a) = SortDesc(b)
IsMax(k, s) == \A i \in 1..Len(s) : k >= s[i]
NonIncreasing(s) == \A i \in 1..(Len(s) - 1) : s[i] >= s[i + 1]
Ascending(s) == \A i \in 1..(Len(s) - 1) : s[i] <= s[i + 1]
Exceeds(c, s) == \E i \in 1..Len(s) : s[i] > c
Above(c, s) == SelectSeq(s, LAMBDA x: x > c)

\* C1: when pop, called repeatedly on from_vec(vec), returns None, the values
\* it returned before are exactly vec sorted in non-increasing order: all
\* Len(vec) elements, none lost, none twice.
C1_DrainIsSortDesc ==
    (last.op = "pop" /\ last.res = None) => out = answer

C1_Witness ==
    /\ last.op = "pop" /\ last.res = None
    /\ Len(vec) = 3 * Divisor
    /\ Len(out) = Len(vec)
    /\ ~NonIncreasing(vec)
    /\ out[1] > out[Len(out)]

\* C2: a pop on a non-empty structure returns an element >= everything that
\* remains and removes exactly that one occurrence; a pop on an empty one
\* returns None and removes nothing.
C2_PopReturnsMax ==
    last.op = "pop" =>
        LET rem == Elements(last.before) IN
        IF Len(rem) = 0
        THEN last.res = None /\ heap = last.before
        ELSE /\ last.res /= None
             /\ IsMax(last.res[1], Elements(heap))
             /\ SameElems(rem, last.res \o Elements(heap))

\* the pop that performs the transition, with elements left
C2_Witness ==
    /\ last.op = "pop" /\ last.res /= None
    /\ last.before.tag = "Sorted" /\ heap.tag = "Binary"
    /\ Len(heap.data) > 1
    /\ Len(out) = 3

\* C3: peek changes nothing, returns None exactly when nothing remains, and
\* otherwise returns what the next pop returns, the maximum of what remains.
C3_PeekAgreesWithPop ==
    last.op = "peek" =>
        /\ heap = last.before
        /\ (last.res = None) <=> (Len(Elements(heap)) = 0)
        /\ last.res /= None =>
              /\ last.res = PopOf(heap).res
              /\ IsMax(last.res[1], Elements(heap))

C3_Witness ==
    /\ last.op = "peek" /\ last.res /= None
    /\ heap.tag = "Sorted" /\ heap.t = 1
    /\ Len(out) = 2

\* C4: a pop_if whose predicate is false on the maximum, or on an empty
\* structure, returns None and leaves variant, budget and elements as they
\* were (so it never performs the transition).
C4_FailedPopIfKeepsState ==
    (last.op = "pop_if"
        /\ ~Exceeds(last.arg, Elements(last.before))) =>
        last.res = None /\ heap = last.before

C4_Witness ==
    /\ last.op = "pop_if" /\ last.res = None
    /\ last.before.tag = "Sorted" /\ last.before.t = 1
    /\ heap.tag = "Sorted"
\* C5: a pop_if whose predicate holds on the maximum returns and removes
\* exactly that maximum; so pop_if with one threshold c, called repeatedly,
\* returns the elements of vec above c in non-increasing order and, once it
\* has returned None, all of them, the next peek being the largest element
\* <= c (None when there is none).
C5_ThresholdDrain ==
    last.op = "pop_if" =>
        LET c == last.arg
            rem == Elements(last.before)
            above == Above(c, answer)
        IN /\ Exceeds(c, rem) =>
                 /\ last.res /= None
                 /\ IsMax(last.res[1], rem)
                 /\ SameElems(rem, last.res \o Elements(heap))
           /\ Len(out) <= Len(above) /\ out = SubSeq(above, 1, Len(out))
           /\ last.res = None =>
                 /\ out = above
                 /\ PeekOf(heap) = IF Len(above) = Len(answer) THEN None
                                   ELSE Some(answer[Len(above) + 1])

\* the example of the specification: 9, 9, 5, 5, then None with 3 next
C5_Witness ==
    /\ vec = Example
    /\ last.op = "pop_if" /\ last.arg = 4 /\ last.res = None
    /\ out = <<9, 9, 5, 5>>
    /\ PeekOf(heap) = Some(3)

\* C6: on a structure with no elements, pop, peek and pop_if return None and
\* leave it as it was (so they do so again on every further call).
C6_EmptyStaysEmpty ==
    (last.op \in {"pop", "peek", "pop_if"} /\ Len(Elements(last.before)) = 0) =>
        last.res = None /\ heap = last.before

\* from_vec([0]) after its one element was popped
C6_Witness ==
    /\ vec = <<0>> /\ out = <<0>>
    /\ last.op = "pop" /\ last.res = None
    /\ last.before = heap

\* C7: no call panics: from_vec builds a structure for every input, pop never
\* finds the Sorted state with an empty vector, and neither n - t nor t - 1
\* goes below zero.
C7_NoPanic ==
    /\ heap.tag /= "Panicked"
    /\ heap.tag = "Sorted" =>
          heap.t - 1 >= 0 /\ Len(heap.inner) - heap.t >= 0

\* a structure built Sorted, past its transition and drained to the end
C7_Witness ==
    /\ Len(vec) = Divisor
    /\ last.op = "pop" /\ last.res = None
    /\ Len(out) = Len(vec)
    /\ heap.tag = "Binary"

\* C8: from_vec starts in the Binary state with all the elements when
\* floor(n / 384) = 0, and otherwise in the Sorted state with budget
\* t = floor(n / 384), all the elements, the t largest in the last t places.
C8_InitialState ==
    last.op = "make" =>
        LET n == Len(vec)
            t == n \div Divisor
        IN IF t = 0
           THEN heap.tag = "Binary" /\ SameElems(heap.data, vec)
           ELSE /\ heap.tag = "Sorted"
                /\ heap.t = t
                /\ SameElems(heap.inner, vec)
                /\ SameElems(SubSeq(heap.inner, n - t + 1, n),
                             SubSeq(answer, 1, t))

C8_Witness ==
    /\ last.op = "make"
    /\ Len(vec) = 3 * Divisor
    /\ heap.tag = "Sorted" /\ heap.t = 3
    /\ heap.inner /= vec

\* C9: into_iter yields exactly the elements not yet popped, each once; in
\* the Sorted state it yields the vector as it stands: the prefix in whatever
\* order it has, then the t window elements in ascending order.
C9_IntoIterYieldsRest ==
    last.op = "into_iter" =>
        /\ SortDesc(out \o last.res) = answer
        /\ last.before.tag = "Sorted" =>
              LET n == Len(last.res)
                  t == last.before.t
              IN /\ last.res = last.before.inner
                 /\ Ascending(SubSeq(last.res, n - t + 1, n))
                 /\ \A i \in 1..(n - t) : last.res[i] <= last.res[n - t + 1]

\* a yield from the Sorted state that is not in non-increasing order
C9_Witness ==
    /\ last.op = "into_iter"
    /\ last.before.tag = "Sorted" /\ last.before.t = 2
    /\ Len(vec) = 3 * Divisor /\ Len(out) = 1
    /\ ~NonIncreasing(last.res)

\* C10: every pop_if returns what the same pop_if returns on a plain
\* max-heap made from the same vector and called in the same way.
C10_SameAsPlainHeap ==
    last.op = "pop_if" => last.res = last.ref

\* a successful pop_if that performs the transition
C10_Witness ==
    /\ last.op = "pop_if" /\ last.res /= None /\ last.res = last.ref
    /\ last.before.tag = "Sorted" /\ heap.tag = "Binary"
    /\ Len(out) = 3

\* C11: in the Sorted state the budget t is positive, the last t elements of
\* the vector are in ascending order, and every element before them is <=
\* every one of them.
C11_SortedWindow ==
    heap.tag = "Sorted" =>
        LET n == Len(heap.inner)
            t == heap.t
        IN /\ t > 0 /\ t <= n
           /\ Ascending(SubSeq(heap.inner, n - t + 1, n))
           /\ \A i \in 1..(n - t), j \in (n - t + 1)..n : heap.inner[i] <= heap.inner[j]

\* still Sorted after a pop, the prefix not in order
C11_Witness ==
    /\ last.op = "pop" /\ last.before.tag = "Sorted" /\ last.before.t = 3
    /\ heap.tag = "Sorted" /\ heap.t = 2
    /\ ~Ascending(heap.inner)

\* C12: once the variant is Binary it stays Binary (until into_iter consumes
\* the structure): no call makes a Binary structure Sorted.
C12_BinaryStaysBinary ==
    [][heap.tag = "Binary" => heap'.tag \in {"Binary", "Moved"}]_vars

\* a pop in the Binary state after the transition, with more left than Divisor
C12_Witness ==
    /\ last.op = "pop" /\ last.before.tag = "Binary" /\ heap.tag = "Binary"
    /\ Len(vec) = 3 * Divisor /\ Len(out) = 4
    /\ Len(heap.data) > Divisor

\* C13: with t0 = floor(n / 384), the structure is Sorted with budget
\* t0 - k after k < t0 successful pops and Binary from the t0-th on: the
\* call that uses up the budget makes the transition itself, and the Sorted
\* state with budget 0 does not occur.
C13_TransitionAtBudget ==
    Live =>
        LET t0 == Len(vec) \div Divisor IN
        IF Len(out) < t0
        THEN heap.tag = "Sorted" /\ heap.t = t0 - Len(out)
        ELSE heap.tag = "Binary"

\* the second of two pops makes the transition
C13_Witness ==
    /\ Len(vec) = 2 * Divisor /\ Len(out) = 2
    /\ last.op = "pop" /\ last.before.tag = "Sorted" /\ last.before.t = 1
    /\ heap.tag = "Binary"

\* C14: the call that makes the transition hands the fallback heap exactly
\* the prefix from_vec left: the n - t0 smallest elements of the input, the
\* input without the t0 values popped, each <= every value popped.
C14_TransitionHandsOverPrefix ==
    (last.op \in {"pop", "pop_if"}
        /\ last.before.tag = "Sorted" /\ heap.tag = "Binary") =>
        LET n == Len(vec)
            t0 == n \div Divisor
        IN /\ out = SubSeq(answer, 1, t0)
           /\ SortDesc(heap.data) = SubSeq(answer, t0 + 1, n)
           /\ \E arr \in Arrangements :
                 SameElems(heap.data, SubSeq(FromVec(vec, arr).inner, 1, n - t0))
           /\ \A i \in 1..Len(heap.data), j \in 1..Len(out) : heap.data[i] <= out[j]

\* a pop_if makes the transition
C14_Witness ==
    /\ last.op = "pop_if" /\ last.before.tag = "Sorted" /\ heap.tag = "Binary"
    /\ Len(vec) = 2 * Divisor + 1
    /\ Len(heap.data) = Len(vec) - 2

\* C15: in the Sorted state len - t is n - floor(n / 384), which is positive,
\* so the vector holds at least t >= 1 elements and peek is not None; the
\* call that makes the transition leaves elements; a structure without
\* elements is Binary.
C15_SortedNeverEmpty ==
    LET n == Len(vec)
        t0 == n \div Divisor
    IN /\ heap.tag = "Sorted" =>
             /\ Len(heap.inner) - heap.t = n - t0
             /\ n - t0 > 0
             /\ heap.t >= 1 /\ Len(heap.inner) >= heap.t
             /\ PeekOf(heap) /= None
       /\ (last.op \in {"pop", "pop_if"} /\ last.before.tag = "Sorted"
              /\ heap.tag = "Binary") => Len(heap.data) > 0
       /\ (Live /\ Len(Elements(heap)) = 0) => heap.tag = "Binary"

\* Sorted after two pops of 1152 elements: 1150 elements, budget 1
C15_Witness ==
    /\ Len(vec) = 3 * Divisor /\ Len(out) = 2
    /\ heap.tag = "Sorted" /\ heap.t = 1
    /\ Len(heap.inner) = 3 * Divisor - 2

(***************************************************************************)
(* Vocabulary of the Typmod properties.                                    *)
(***************************************************************************)
\* the k-th call is op
Called(k, op) == k <= Len(tm.calls) /\ tm.calls[k] = op
\* the argument and the result of the k-th call
Arg(k) == tm.vals[k]
Res(k) == tm.vals[k + 1]
\* r is the value v of type ty
Is(r, ty, v) == r.ty = ty /\ r.v = v

\* the decimal numeral of n >= 0
RECURSIVE Numeral(_)
Numeral(n) ==
    IF n < 10 THEN <<DigitChars[n + 1]>>
    ELSE Numeral(n \div 10) \o <<DigitChars[(n % 10) + 1]>>

\* the number a string of digits denotes, 65536 standing for all above 65535
RECURSIVE DigitsValue(_, _)
DigitsValue(s, acc) ==
    IF Len(s) = 0 THEN acc
    ELSE LET next == acc * 10 + DigitOf(s[1]) IN
         DigitsValue(Tail(s), IF next > 65535 THEN 65536 ELSE next)

\* the integer an element of the modifier list parses as: digits, after an
\* optional "+"; None when it does not parse
IntegerOf(e) ==
    IF e.ty /= "str" THEN None
    ELSE LET s == IF Len(e.v) > 0 /\ e.v[1] = "+" THEN Tail(e.v) ELSE e.v IN
         IF Len(s) > 0 /\ \A i \in 1..Len(s) : IsDigit(s[i])
         THEN Some(DigitsValue(s, 0))
         ELSE None

\* C16: parse_from_i32(x) returns Some(Any) for x = -1, Some(Dims(x)) for
\* x >= 1 and None for x = 0 and x <= -2, without panicking; into_i32 on the
\* Typmod it returned gives x back.
C16_ParseFromI32RoundTrip ==
    \A k \in 1..Len(tm.calls) :
        Called(k, "parse_from_i32") =>
            LET x == Arg(k).v IN
            /\ Is(Res(k), "Option<Typmod>",
                   IF x = -1 THEN Some(TypmodAny)
                   ELSE IF x >= 1 THEN Some(TypmodDims(U32(x)))
                   ELSE None)
            /\ Called(k + 1, "into_i32") => Is(Res(k + 1), "i32", x)

\* the largest i32, parsed and encoded again
C16_Witness ==
    /\ tm.calls = <<"parse_from_i32", "into_i32">>
    /\ Is(tm.vals[1], "i32", 2147483647)
    /\ Is(tm.vals[2], "Option<Typmod>", Some(TypmodDims(<<32767, 65535>>)))
    /\ Is(tm.vals[3], "i32", 2147483647)

\* C17 as stated: for every Typmod t, Any or Dims(d) with d any non-zero
\* u32, parse_from_i32(t.into_i32()) returns Some(t).
C17_Original ==
    \A k \in 1..Len(tm.calls) :
        (Called(k, "into_i32") /\ Arg(k).ty = "Typmod"
            /\ Called(k + 1, "parse_from_i32")) =>
            Is(Res(k + 1), "Option<Typmod>", Some(Arg(k).v))

\* C17: parse_from_i32(t.into_i32()) returns Some(t) for t = Any and for
\* t = Dims(d) with 1 <= d <= 2^31 - 1.  For d >= 2^31 into_i32 wraps to a
\* negative i32, and parse_from_i32 returns Some(Any) for d = 2^32 - 1 (which
\* wraps to -1) and None for every other d.
C17_RoundTripBelowSignBit ==
    \A k \in 1..Len(tm.calls) :
        (Called(k, "into_i32") /\ Arg(k).ty = "Typmod"
            /\ Called(k + 1, "parse_from_i32")) =>
            LET t == Arg(k).v IN
            IF t = TypmodAny \/ t[2][1] < 32768
            THEN Is(Res(k + 1), "Option<Typmod>", Some(t))
            ELSE /\ Res(k).v < 0
                 /\ Is(Res(k + 1), "Option<Typmod>",
                       IF t[2] = <<65535, 65535>> THEN Some(TypmodAny) ELSE None)

\* Dims(2^31 - 1), encoded and parsed again
C17_Witness ==
    /\ tm.calls = <<"into_i32", "parse_from_i32">>
    /\ Is(tm.vals[1], "Typmod", TypmodDims(<<32767, 65535>>))
    /\ Is(tm.vals[2], "i32", 2147483647)
    /\ Is(tm.vals[3], "Option<Typmod>", Some(TypmodDims(<<32767, 65535>>)))

\* C18: _vchord_typmod_in_65535 returns -1 for the empty list, d for a list
\* of one element that parses as an integer d with 1 <= d <= 65535, and
\* raises "Modifier of the type is invalid." for every other list;
\* _vchord_typmod_out on a value it returned does not panic and prints "()"
\* for -1 and "(d)" for d.
C18_TypmodInRaisesOrReturns ==
    Called(1, "_vchord_typmod_in_65535") =>
        LET list == Arg(1).v
            d == IF Len(list) = 1 THEN IntegerOf(list[1]) ELSE None
        IN /\ IF Len(list) = 0 THEN Is(Res(1), "i32", -1)
              ELSE IF d /= None /\ d[1] >= 1 /\ d[1] <= 65535
                   THEN Is(Res(1), "i32", d[1])
                   ELSE Is(Res(1), "error", InvalidModifier)
           /\ (Res(1).ty = "i32" /\ Called(2, "_vchord_typmod_out")) =>
                 Is(Res(2), "CString",
                    IF Res(1).v = -1 THEN <<"(", ")">>
                    ELSE <<"(">> \o Numeral(Res(1).v) \o <<")">>)
====
